---------------------------- MODULE Spec2Model ----------------------------
(***************************************************************************)
(* Model of the ADS1220 driver (src/src/lib.rs): the four cached           *)
(* configuration bytes of the driver, the SPI transactions every public    *)
(* operation issues, and the device at the other end of the bus.           *)
(*                                                                         *)
(* Every public operation is one action.  The transactions the operation   *)
(* issued are recorded, in order, in `bus`; `call` names the operation and *)
(* its argument and `ret` is what it returned.  A transport fault is an    *)
(* input of the action: `fail = k` makes the k-th transaction of the       *)
(* operation return Err, `fail = 0` lets all of them succeed.  A faulted   *)
(* transaction is recorded with ok = FALSE and has no effect on the        *)
(* device.                                                                 *)
(***************************************************************************)
EXTENDS Integers, Sequences, FiniteSets, TLC

\* ------------------------------------------------------------- bounds
\* Number of public operations called in one behaviour.
MaxOps == 2

\* ------------------------------------------------- u8 / u32 arithmetic
Byte == 0..255

RECURSIVE BitAnd(_, _)
BitAnd(a, b) ==
    IF a = 0 \/ b = 0 THEN 0
    ELSE (IF a % 2 = 1 /\ b % 2 = 1 THEN 1 ELSE 0) + 2 * BitAnd(a \div 2, b \div 2)

RECURSIVE BitOr(_, _)
BitOr(a, b) ==
    IF a = 0 THEN b
    ELSE IF b = 0 THEN a
    ELSE (IF a % 2 = 1 \/ b % 2 = 1 THEN 1 ELSE 0) + 2 * BitOr(a \div 2, b \div 2)

\* `!x` on a u8
Not8(x) == 255 - x

\* `x << n` on a u8
Shl8(x, n) == (x * (2 ^ n)) % 256

\* ------------------------------------------------ constants of lib.rs
SPI_MASTER_DUMMY == 255
RESET == 6
START == 8
WREG == 64
RREG == 32

CONFIG_REG0_ADDRESS == 0
CONFIG_REG1_ADDRESS == 1
CONFIG_REG2_ADDRESS == 2
CONFIG_REG3_ADDRESS == 3

REG_CONFIG3_IDAC1_ROUTING_MASK == 224
REG_CONFIG3_IDAC2_ROUTING_MASK == 28
REG_CONFIG2_VREF_MASK == 192
REG_CONFIG2_FIR_MASK == 48
REG_CONFIG2_IDAC_CURRENT_MASK == 7
REG_CONFIG1_MODE_MASK == 24
REG_CONFIG1_DR_MASK == 224
REG_CONFIG0_PGA_GAIN_MASK == 14
REG_CONFIG0_MUX_MASK == 240

\* IDAC1_DISABLE .. IDAC1_RESERVED
Idac1Values == {0, 32, 64, 96, 128, 160, 192, 224}
\* IDAC2_DISABLE, IDAC2_AIN0, IDAC2_AIN1, IDAC2_AIN2 (0x60), IDAC2_AIN3,
\* IDAC2_REFP0, IDAC2_REFN0, IDAC2_RESERVED
Idac2Values == {0, 4, 8, 96, 12, 16, 20, 28}
\* IDAC_OFF .. IDAC_1500
IdacCurrentValues == {0, 1, 2, 3, 4, 5, 6, 7}
\* FIR_OFF, FIR_5060, FIR_50HZ, FIR_60HZ
FirValues == {0, 16, 32, 48}
\* VREF_2048, VREF_REFP0, VREF_AIN0, VREF_ANALOG
VrefValues == {0, 64, 128, 192}
\* MODE_NORMAL, MODE_DUTY_CYCLE, MODE_TURBO, MODE_RESERVED
ModeValues == {0, 8, 16, 24}
\* DR_20SPS (0x00), DR_45SPS (0x02), DR_90SPS (0x04), DR_175SPS (0x06),
\* DR_330SPS (0x08), DR_600SPS (0xA0), DR_1000SPS (0xC0)
DataRateValues == {0, 2, 4, 6, 8, 160, 192}
\* The same seven, in the order of their names: DR_20SPS, DR_45SPS, DR_90SPS,
\* DR_175SPS, DR_330SPS, DR_600SPS, DR_1000SPS
DataRateSequence == <<0, 2, 4, 6, 8, 160, 192>>
\* PGA_GAIN_1 .. PGA_GAIN_128
PgaGainValues == {0, 2, 4, 6, 8, 10, 12, 14}
\* MUX_AIN0_AIN1 .. MUX_AIN3_AVSS (MUX_SE_CH0..3 are the last four again)
MuxValues == {0, 16, 32, 48, 64, 80, 96, 112, 128, 144, 160, 176}

VREF_MASK == BitOr(Shl8(1, 6), Shl8(1, 7))
VREF_INT == Shl8(0, 6)
VREF_EXT == Shl8(1, 6)

\* ---------------------------------------------------------------- state
VARIABLES
    m_config_reg0,   \* the driver's cached copies of the four registers
    m_config_reg1,
    m_config_reg2,
    m_config_reg3,
    device,          \* the device's configuration registers, address -> byte
    bus,             \* the transactions issued by the last operation
    call,            \* the last operation: [name, arg]
    ret,             \* its result: [ok, val]
    nops             \* operations called so far

vars == <<m_config_reg0, m_config_reg1, m_config_reg2, m_config_reg3,
          device, bus, call, ret, nops>>

cache == <<m_config_reg0, m_config_reg1, m_config_reg2, m_config_reg3>>

\* ------------------------------------------- SPI operations (embedded-hal)
DelayNs(ns) == [op |-> "DelayNs", ns |-> ns, tx |-> <<>>, rx |-> <<>>]
Write(bytes) == [op |-> "Write", ns |-> 0, tx |-> bytes, rx |-> <<>>]
TransferInPlace(bytes) == [op |-> "TransferInPlace", ns |-> 0, tx |-> bytes, rx |-> <<>>]
Transfer(read, write) == [op |-> "Transfer", ns |-> 0, tx |-> write, rx |-> read]
Read(read) == [op |-> "Read", ns |-> 0, tx |-> <<>>, rx |-> read]

\* One call of self.spi.transaction(&mut operations): the operations, and
\* whether the transport returned Ok.
Transaction(operations, ok) == [ops |-> operations, ok |-> ok]


\* What a transaction that returned Err leaves behind: the receive buffers
\* keep the 0x00 the driver initialised them with.
Faulted(t) ==
    [ops |-> [i \in DOMAIN t.ops |->
                 [t.ops[i] EXCEPT !.rx = [j \in DOMAIN t.ops[i].rx |-> 0]]],
     ok |-> FALSE]

\* ------------------------------------------------------------ the device
\* The register the command byte 0100 rrnn / 0010 rrnn addresses.
CommandRegister(c) == (c \div 4) % 4

\* The byte the device shifts out in the data phase that follows command c.
DeviceRead(dev, c) ==
    IF c \div 16 = RREG \div 16 THEN dev[CommandRegister(c)] ELSE 0

\* The device's registers after it has seen the successful transaction t.
DeviceAfter(dev, t) ==
    IF ~t.ok \/ Len(t.ops) < 2 \/ t.ops[2].op # "Write" THEN dev
    ELSE LET c == t.ops[2].tx[1] IN
         IF Len(t.ops) = 2 /\ c = RESET THEN [a \in 0..3 |-> 0]
         ELSE IF Len(t.ops) = 3 /\ c \div 16 = WREG \div 16
                 /\ t.ops[3].op = "TransferInPlace"
              THEN [dev EXCEPT ![CommandRegister(c)] = t.ops[3].tx[1]]
              ELSE dev

RECURSIVE DeviceAfterAll(_, _)
DeviceAfterAll(dev, log) ==
    IF log = <<>> THEN dev
    ELSE DeviceAfterAll(DeviceAfter(dev, Head(log)), Tail(log))

\* The bytes a conversion result can be read back as: the extremes of the
\* 24-bit range, and one word whose three bytes all differ.
Samples == {<<0, 0, 0>>, <<127, 255, 255>>, <<128, 0, 0>>, <<255, 255, 255>>,
            <<1, 2, 3>>}

\* ------------------------------------------------- the driver's primitives
\* Each yields the transaction the function hands to self.spi.transaction,
\* as it reads when the transport returns Ok.
\* (mutant: the address is not shifted into bits 2-3)
write_register_command_unshifted(address) == BitOr(WREG, address)

write_register_command(address) == BitOr(WREG, Shl8(address, 2))

\* (mutant: the value byte goes out before the command byte)
write_register_value_first(address, value) ==
    Transaction(<<DelayNs(50),
                  TransferInPlace(<<value>>),
                  Write(<<write_register_command(address)>>)>>, TRUE)

write_register(address, value) ==
    Transaction(<<DelayNs(50),
                  Write(<<write_register_command(address)>>),
                  TransferInPlace(<<value>>)>>, TRUE)

read_register_command(address) == BitOr(RREG, Shl8(address, 2))

read_register(dev, address) ==
    Transaction(<<DelayNs(50),
                  Write(<<read_register_command(address)>>),
                  Transfer(<<DeviceRead(dev, read_register_command(address))>>,
                           <<SPI_MASTER_DUMMY>>)>>, TRUE)

\* Ok(result[0])
read_register_result(t) == t.ops[3].rx[1]

spi_command(data) == Transaction(<<DelayNs(50), Write(<<data>>)>>, TRUE)

reset_transaction == spi_command(RESET)

start_conv_transaction == spi_command(START)

read_data_samples_transaction(sample) ==
    Transaction(<<DelayNs(50), Read(sample)>>, TRUE)

\* Ok(buf)
read_data_samples_result(t) == t.ops[2].rx

\* The transactions an operation issues when its planned sequence is `plan`
\* and the transport faults at transaction `fail` (0: never).  Every `?`
\* returns the Err at once, so nothing after the faulted one is issued.
\* (mutant: the Err of a transaction is not propagated, the rest is issued)
IssuedCarryOn(plan, fail) ==
    [i \in DOMAIN plan |-> IF i = fail THEN Faulted(plan[i]) ELSE plan[i]]

Issued(plan, fail) ==
    IF fail = 0 THEN plan
    ELSE [i \in 1..fail |-> IF i = fail THEN Faulted(plan[i]) ELSE plan[i]]

\* ---------------------------------------------------------- data_to_int
\* A u32 as its top byte and its low 24 bits.
U32(hi, lo) == [hi |-> hi, lo |-> lo]
U32FromU8(b) == U32(0, b)
U32Shl8(r) == U32((r.hi * 256 + r.lo \div 65536) % 256, (r.lo * 256) % 16777216)
U32OrU8(r, b) == U32(r.hi, BitOr(r.lo, b))
\* r | 0xFF000000
U32OrFF000000(r) == U32(BitOr(r.hi, 255), r.lo)
\* r as i32
U32AsI32(r) == IF r.hi >= 128 THEN (r.hi - 256) * 16777216 + r.lo
               ELSE r.hi * 16777216 + r.lo

data_to_int(data) ==
    LET r1 == U32FromU8(data[1])
        r2 == U32OrU8(U32Shl8(r1), data[2])
        r3 == U32OrU8(U32Shl8(r2), data[3])
        r4 == IF BitAnd(data[1], Shl8(1, 7)) = 0 THEN U32OrFF000000(r3) ELSE r3
    IN  U32AsI32(r4)


\* ------------------------------------------------------------ operations
Init ==
    /\ m_config_reg0 = 0
    /\ m_config_reg1 = 0
    /\ m_config_reg2 = 0
    /\ m_config_reg3 = 0
    /\ device = [a \in 0..3 |-> 0]
    /\ bus = <<>>
    /\ call = [name |-> "new", arg |-> 0]
    /\ ret = [ok |-> TRUE, val |-> <<>>]
    /\ nops = 0

\* The bound on the length of a behaviour.
CanCall == nops < MaxOps

\* The part every operation shares: the transactions it issued reach the
\* device in order, and the call and its result are recorded.
Finish(name, arg, log, val) ==
    /\ nops' = nops + 1
    /\ bus' = log
    /\ device' = DeviceAfterAll(device, log)
    /\ call' = [name |-> name, arg |-> arg]
    /\ ret' = [ok |-> \A i \in DOMAIN log : log[i].ok, val |-> val]

\* self.m_config_reg<address> = value
SetCache(address, value) ==
    /\ m_config_reg0' = IF address = CONFIG_REG0_ADDRESS THEN value ELSE m_config_reg0
    /\ m_config_reg1' = IF address = CONFIG_REG1_ADDRESS THEN value ELSE m_config_reg1
    /\ m_config_reg2' = IF address = CONFIG_REG2_ADDRESS THEN value ELSE m_config_reg2
    /\ m_config_reg3' = IF address = CONFIG_REG3_ADDRESS THEN value ELSE m_config_reg3

\* A setter: the cached byte is updated first, then written to the device.
Setter(name, arg, address, value, fail) ==
    /\ CanCall
    /\ SetCache(address, value)
    /\ Finish(name, arg, Issued(<<write_register(address, value)>>, fail), <<>>)

Faults(n) == 0..n

select_mux_channels_value(reg, channels_conf) ==
    BitOr(BitAnd(reg, Not8(REG_CONFIG0_MUX_MASK)), channels_conf)

select_mux_channels(channels_conf, fail) ==
    Setter("select_mux_channels", channels_conf, CONFIG_REG0_ADDRESS,
           select_mux_channels_value(m_config_reg0, channels_conf), fail)

set_pga_gain_value(reg, pga_gain) ==
    BitOr(BitAnd(reg, Not8(REG_CONFIG0_PGA_GAIN_MASK)), pga_gain)

set_pga_gain(pga_gain, fail) ==
    Setter("set_pga_gain", pga_gain, CONFIG_REG0_ADDRESS,
           set_pga_gain_value(m_config_reg0, pga_gain), fail)

pga_on_value(reg) ==
    BitAnd(reg, Not8(Shl8(1, 0)))

pga_on(fail) ==
    Setter("pga_on", 0, CONFIG_REG0_ADDRESS,
           pga_on_value(m_config_reg0), fail)

pga_off_value(reg) ==
    BitOr(reg, Not8(Shl8(1, 0)))

pga_off(fail) ==
    Setter("pga_off", 0, CONFIG_REG0_ADDRESS,
           pga_off_value(m_config_reg0), fail)

set_data_rate_value(reg, data_rate) ==
    BitOr(BitAnd(reg, Not8(REG_CONFIG1_DR_MASK)), data_rate)

set_data_rate(data_rate, fail) ==
    Setter("set_data_rate", data_rate, CONFIG_REG1_ADDRESS,
           set_data_rate_value(m_config_reg1, data_rate), fail)

set_operation_mode_value(reg, mode) ==
    BitOr(BitAnd(reg, Not8(REG_CONFIG1_MODE_MASK)), mode)

set_operation_mode(mode, fail) ==
    Setter("set_operation_mode", mode, CONFIG_REG1_ADDRESS,
           set_operation_mode_value(m_config_reg1, mode), fail)

set_conv_mode_single_shot_value(reg) ==
    BitOr(reg, Not8(Shl8(1, 2)))

set_conv_mode_single_shot(fail) ==
    Setter("set_conv_mode_single_shot", 0, CONFIG_REG1_ADDRESS,
           set_conv_mode_single_shot_value(m_config_reg1), fail)

set_conv_mode_continuous_value(reg) ==
    BitOr(reg, Shl8(1, 2))

set_conv_mode_continuous(fail) ==
    Setter("set_conv_mode_continuous", 0, CONFIG_REG1_ADDRESS,
           set_conv_mode_continuous_value(m_config_reg1), fail)

temp_sensor_mode_disable_value(reg) ==
    BitAnd(reg, Not8(Shl8(1, 1)))

temp_sensor_mode_disable(fail) ==
    Setter("temp_sensor_mode_disable", 0, CONFIG_REG1_ADDRESS,
           temp_sensor_mode_disable_value(m_config_reg1), fail)

temp_sensor_mode_enable_value(reg) ==
    BitOr(reg, Shl8(1, 1))

temp_sensor_mode_enable(fail) ==
    Setter("temp_sensor_mode_enable", 0, CONFIG_REG1_ADDRESS,
           temp_sensor_mode_enable_value(m_config_reg1), fail)

current_sources_off_value(reg) ==
    BitAnd(reg, Not8(Shl8(1, 0)))

current_sources_off(fail) ==
    Setter("current_sources_off", 0, CONFIG_REG1_ADDRESS,
           current_sources_off_value(m_config_reg1), fail)

current_sources_on_value(reg) ==
    BitOr(reg, Shl8(1, 0))

current_sources_on(fail) ==
    Setter("current_sources_on", 0, CONFIG_REG1_ADDRESS,
           current_sources_on_value(m_config_reg1), fail)

set_vref_value(reg, vref) ==
    BitOr(BitAnd(reg, Not8(REG_CONFIG2_VREF_MASK)), vref)

set_vref(vref, fail) ==
    Setter("set_vref", vref, CONFIG_REG2_ADDRESS,
           set_vref_value(m_config_reg2, vref), fail)

set_fir_filter_value(reg, filter) ==
    BitOr(BitAnd(reg, Not8(REG_CONFIG2_FIR_MASK)), filter)

set_fir_filter(filter, fail) ==
    Setter("set_fir_filter", filter, CONFIG_REG2_ADDRESS,
           set_fir_filter_value(m_config_reg2, filter), fail)

low_side_switch_open_value(reg) ==
    BitAnd(reg, Not8(Shl8(1, 3)))

low_side_switch_open(fail) ==
    Setter("low_side_switch_open", 0, CONFIG_REG2_ADDRESS,
           low_side_switch_open_value(m_config_reg2), fail)

low_side_switch_closed_value(reg) ==
    BitOr(reg, Shl8(1, 3))

low_side_switch_closed(fail) ==
    Setter("low_side_switch_closed", 0, CONFIG_REG2_ADDRESS,
           low_side_switch_closed_value(m_config_reg2), fail)

set_idac_current_value(reg, idac_current) ==
    BitOr(BitAnd(reg, Not8(REG_CONFIG2_IDAC_CURRENT_MASK)), idac_current)

set_idac_current(idac_current, fail) ==
    Setter("set_idac_current", idac_current, CONFIG_REG2_ADDRESS,
           set_idac_current_value(m_config_reg2, idac_current), fail)

set_idac1_route_value(reg, idac1_routing) ==
    BitOr(BitAnd(reg, Not8(REG_CONFIG3_IDAC1_ROUTING_MASK)), idac1_routing)

set_idac1_route(idac1_routing, fail) ==
    Setter("set_idac1_route", idac1_routing, CONFIG_REG3_ADDRESS,
           set_idac1_route_value(m_config_reg3, idac1_routing), fail)

set_idac2_route_value(reg, idac2_routing) ==
    BitOr(BitAnd(reg, Not8(REG_CONFIG3_IDAC2_ROUTING_MASK)), idac2_routing)

set_idac2_route(idac2_routing, fail) ==
    Setter("set_idac2_route", idac2_routing, CONFIG_REG3_ADDRESS,
           set_idac2_route_value(m_config_reg3, idac2_routing), fail)

set_drdy_mode_default_value(reg) ==
    BitAnd(reg, Not8(Shl8(1, 3)))

set_drdy_mode_default(fail) ==
    Setter("set_drdy_mode_default", 0, CONFIG_REG3_ADDRESS,
           set_drdy_mode_default_value(m_config_reg3), fail)

set_drdy_mode_dout_value(reg) ==
    BitOr(reg, Shl8(1, 3))

set_drdy_mode_dout(fail) ==
    Setter("set_drdy_mode_dout", 0, CONFIG_REG3_ADDRESS,
           set_drdy_mode_dout_value(m_config_reg3), fail)

set_internal_reference_value(reg) ==
    BitOr(BitAnd(reg, Not8(VREF_MASK)), VREF_INT)

set_internal_reference(fail) ==
    Setter("set_internal_reference", 0, CONFIG_REG2_ADDRESS,
           set_internal_reference_value(m_config_reg2), fail)

set_external_reference_value(reg) ==
    BitOr(BitAnd(reg, Not8(VREF_MASK)), VREF_EXT)

set_external_reference(fail) ==
    Setter("set_external_reference", 0, CONFIG_REG2_ADDRESS,
           set_external_reference_value(m_config_reg2), fail)

reset(fail) ==
    /\ CanCall
    /\ UNCHANGED <<m_config_reg0, m_config_reg1, m_config_reg2, m_config_reg3>>
    /\ Finish("reset", 0, Issued(<<reset_transaction>>, fail), <<>>)

start_conv(fail) ==
    /\ CanCall
    /\ UNCHANGED <<m_config_reg0, m_config_reg1, m_config_reg2, m_config_reg3>>
    /\ Finish("start_conv", 0, Issued(<<start_conv_transaction>>, fail), <<>>)

\* begin: the defaults it stores in the cache and writes, register by register
begin_defaults == <<0, 4, 16, 0>>

\* (mutant: register 1 is written before register 0)
begin_plan_reg1_first ==
    <<reset_transaction,
      Transaction(<<DelayNs(50000)>>, TRUE),
      write_register(CONFIG_REG1_ADDRESS, begin_defaults[2]),
      write_register(CONFIG_REG0_ADDRESS, begin_defaults[1]),
      write_register(CONFIG_REG2_ADDRESS, begin_defaults[3]),
      write_register(CONFIG_REG3_ADDRESS, begin_defaults[4])>>

begin_plan ==
    <<reset_transaction,
      Transaction(<<DelayNs(50000)>>, TRUE),
      write_register(CONFIG_REG0_ADDRESS, begin_defaults[1]),
      write_register(CONFIG_REG1_ADDRESS, begin_defaults[2]),
      write_register(CONFIG_REG2_ADDRESS, begin_defaults[3]),
      write_register(CONFIG_REG3_ADDRESS, begin_defaults[4])>>

begin(fail) ==
    /\ CanCall
    /\ IF fail \in {1, 2}
       THEN UNCHANGED <<m_config_reg0, m_config_reg1, m_config_reg2, m_config_reg3>>
       ELSE /\ m_config_reg0' = begin_defaults[1]
            /\ m_config_reg1' = begin_defaults[2]
            /\ m_config_reg2' = begin_defaults[3]
            /\ m_config_reg3' = begin_defaults[4]
    /\ Finish("begin", 0, Issued(begin_plan, fail), <<>>)

\* (mutant: the registers are read from address 3 down to 0)
get_config_reg_plan_reversed(dev) ==
    <<read_register(dev, CONFIG_REG3_ADDRESS),
      read_register(dev, CONFIG_REG2_ADDRESS),
      read_register(dev, CONFIG_REG1_ADDRESS),
      read_register(dev, CONFIG_REG0_ADDRESS)>>

get_config_reg_plan(dev) ==
    <<read_register(dev, CONFIG_REG0_ADDRESS),
      read_register(dev, CONFIG_REG1_ADDRESS),
      read_register(dev, CONFIG_REG2_ADDRESS),
      read_register(dev, CONFIG_REG3_ADDRESS)>>

get_config_reg(fail) ==
    LET plan == get_config_reg_plan(device)
        \* the k-th read was assigned to the cache iff it returned Ok
        got(k, old) == IF fail = 0 \/ k < fail
                       THEN read_register_result(plan[k]) ELSE old
    IN  /\ CanCall
        /\ m_config_reg0' = got(1, m_config_reg0)
        /\ m_config_reg1' = got(2, m_config_reg1)
        /\ m_config_reg2' = got(3, m_config_reg2)
        /\ m_config_reg3' = got(4, m_config_reg3)
        /\ Finish("get_config_reg", 0, Issued(plan, fail),
                  IF fail = 0
                  THEN <<got(1, m_config_reg0), got(2, m_config_reg1),
                         got(3, m_config_reg2), got(4, m_config_reg3)>>
                  ELSE <<>>)

read_data_samples(sample, fail) ==
    LET t == read_data_samples_transaction(sample)
    IN  /\ CanCall
        /\ UNCHANGED <<m_config_reg0, m_config_reg1, m_config_reg2, m_config_reg3>>
        /\ Finish("read_data_samples", 0, Issued(<<t>>, fail),
                  IF fail = 0 THEN read_data_samples_result(t) ELSE <<>>)

\* (mutant: a 1 ms wait for data-ready between start and read, as in the
\* disabled wait_for_data)
read_single_shot_plan_wait(sample) ==
    <<start_conv_transaction,
      Transaction(<<DelayNs(1000000)>>, TRUE),
      read_data_samples_transaction(sample)>>

read_single_shot_plan(sample) ==
    <<start_conv_transaction, read_data_samples_transaction(sample)>>

read_single_shot(sample, fail) ==
    LET plan == read_single_shot_plan(sample)
    IN  /\ CanCall
        /\ UNCHANGED <<m_config_reg0, m_config_reg1, m_config_reg2, m_config_reg3>>
        /\ Finish("read_single_shot", 0, Issued(plan, fail),
                  IF fail = 0
                  THEN <<data_to_int(read_data_samples_result(plan[Len(plan)]))>>
                  ELSE <<>>)

\* (mutant: the conversion is started before the mux is written)
read_single_shot_single_ended_plan_start_first(reg, channels_conf, sample) ==
    <<start_conv_transaction,
      write_register(CONFIG_REG0_ADDRESS, select_mux_channels_value(reg, channels_conf)),
      read_data_samples_transaction(sample)>>

read_single_shot_single_ended_plan(reg, channels_conf, sample) ==
    <<write_register(CONFIG_REG0_ADDRESS, select_mux_channels_value(reg, channels_conf))>>
    \o read_single_shot_plan(sample)

read_single_shot_single_ended(channels_conf, sample, fail) ==
    LET plan == read_single_shot_single_ended_plan(m_config_reg0, channels_conf, sample)
    IN  /\ CanCall
        /\ SetCache(CONFIG_REG0_ADDRESS,
                    select_mux_channels_value(m_config_reg0, channels_conf))
        /\ Finish("read_single_shot_single_ended", channels_conf, Issued(plan, fail),
                  IF fail = 0
                  THEN <<data_to_int(read_data_samples_result(plan[Len(plan)]))>>
                  ELSE <<>>)

\* The samples an operation can be handed: the read-back bytes matter only
\* to a call whose transactions all succeed.
SamplesFor(fail) == IF fail = 0 THEN Samples ELSE {<<0, 0, 0>>}

\* Configuring the device: every field setter.
SetterNext ==
    \/ \E v \in MuxValues, fail \in Faults(1) : select_mux_channels(v, fail)
    \/ \E v \in PgaGainValues, fail \in Faults(1) : set_pga_gain(v, fail)
    \/ \E fail \in Faults(1) : pga_on(fail)
    \/ \E fail \in Faults(1) : pga_off(fail)
    \/ \E v \in DataRateValues, fail \in Faults(1) : set_data_rate(v, fail)
    \/ \E v \in ModeValues, fail \in Faults(1) : set_operation_mode(v, fail)
    \/ \E fail \in Faults(1) : set_conv_mode_single_shot(fail)
    \/ \E fail \in Faults(1) : set_conv_mode_continuous(fail)
    \/ \E fail \in Faults(1) : temp_sensor_mode_disable(fail)
    \/ \E fail \in Faults(1) : temp_sensor_mode_enable(fail)
    \/ \E fail \in Faults(1) : current_sources_off(fail)
    \/ \E fail \in Faults(1) : current_sources_on(fail)
    \/ \E v \in VrefValues, fail \in Faults(1) : set_vref(v, fail)
    \/ \E v \in FirValues, fail \in Faults(1) : set_fir_filter(v, fail)
    \/ \E fail \in Faults(1) : low_side_switch_open(fail)
    \/ \E fail \in Faults(1) : low_side_switch_closed(fail)
    \/ \E v \in IdacCurrentValues, fail \in Faults(1) : set_idac_current(v, fail)
    \/ \E v \in Idac1Values, fail \in Faults(1) : set_idac1_route(v, fail)
    \/ \E v \in Idac2Values, fail \in Faults(1) : set_idac2_route(v, fail)
    \/ \E fail \in Faults(1) : set_drdy_mode_default(fail)
    \/ \E fail \in Faults(1) : set_drdy_mode_dout(fail)
    \/ \E fail \in Faults(1) : set_internal_reference(fail)
    \/ \E fail \in Faults(1) : set_external_reference(fail)

\* Initialisation, reset and the register dump.
LifecycleNext ==
    \/ \E fail \in Faults(1) : reset(fail)
    \/ \E fail \in Faults(6) : begin(fail)
    \/ \E fail \in Faults(4) : get_config_reg(fail)

\* Conversions.
ConversionNext ==
    \/ \E fail \in Faults(1) : start_conv(fail)
    \/ \E fail \in Faults(1) : \E sample \in SamplesFor(fail) :
          read_data_samples(sample, fail)
    \/ \E fail \in Faults(2) : \E sample \in SamplesFor(fail) :
          read_single_shot(sample, fail)
    \/ \E v \in MuxValues, fail \in Faults(3) : \E sample \in SamplesFor(fail) :
          read_single_shot_single_ended(v, sample, fail)

\* The whole driver.
Next == SetterNext \/ LifecycleNext \/ ConversionNext

Spec == Init /\ [][Next]_vars

\* A caller that converts: begin, reset, register dump, channel selection and
\* the conversion reads.
ConvNext ==
    \/ LifecycleNext
    \/ ConversionNext
    \/ \E v \in MuxValues, fail \in Faults(1) : select_mux_channels(v, fail)

SpecConv == Init /\ [][ConvNext]_vars


\* ============================================================ properties
\* The register layout the properties are stated against (Reg0: mux 4-7,
\* gain 1-3, pga_bypass 0; Reg1: data_rate 5-7, operating_mode 3-4,
\* conversion_mode 2, temp_sensor_mode 1, burnout_current 0; Reg2: vref 6-7,
\* fir 4-5, low_side_switch 3, idac_current 0-2; Reg3: idac1_route 5-7,
\* idac2_route 2-4, drdy_mode 1).  For every setter: the register it
\* targets, the mask of its field, and, for a setter without an argument,
\* the field value it stands for.
Layout ==
    [select_mux_channels       |-> [reg |-> 0, mask |-> 240, arg |-> TRUE,  value |-> 0],
     set_pga_gain              |-> [reg |-> 0, mask |-> 14,  arg |-> TRUE,  value |-> 0],
     pga_on                    |-> [reg |-> 0, mask |-> 1,   arg |-> FALSE, value |-> 0],
     pga_off                   |-> [reg |-> 0, mask |-> 1,   arg |-> FALSE, value |-> 1],
     set_data_rate             |-> [reg |-> 1, mask |-> 224, arg |-> TRUE,  value |-> 0],
     set_operation_mode        |-> [reg |-> 1, mask |-> 24,  arg |-> TRUE,  value |-> 0],
     set_conv_mode_single_shot |-> [reg |-> 1, mask |-> 4,   arg |-> FALSE, value |-> 0],
     set_conv_mode_continuous  |-> [reg |-> 1, mask |-> 4,   arg |-> FALSE, value |-> 4],
     temp_sensor_mode_disable  |-> [reg |-> 1, mask |-> 2,   arg |-> FALSE, value |-> 0],
     temp_sensor_mode_enable   |-> [reg |-> 1, mask |-> 2,   arg |-> FALSE, value |-> 2],
     current_sources_off       |-> [reg |-> 1, mask |-> 1,   arg |-> FALSE, value |-> 0],
     current_sources_on        |-> [reg |-> 1, mask |-> 1,   arg |-> FALSE, value |-> 1],
     set_vref                  |-> [reg |-> 2, mask |-> 192, arg |-> TRUE,  value |-> 0],
     set_fir_filter            |-> [reg |-> 2, mask |-> 48,  arg |-> TRUE,  value |-> 0],
     low_side_switch_open      |-> [reg |-> 2, mask |-> 8,   arg |-> FALSE, value |-> 0],
     low_side_switch_closed    |-> [reg |-> 2, mask |-> 8,   arg |-> FALSE, value |-> 8],
     set_idac_current          |-> [reg |-> 2, mask |-> 7,   arg |-> TRUE,  value |-> 0],
     set_idac1_route           |-> [reg |-> 3, mask |-> 224, arg |-> TRUE,  value |-> 0],
     set_idac2_route           |-> [reg |-> 3, mask |-> 28,  arg |-> TRUE,  value |-> 0],
     set_drdy_mode_default     |-> [reg |-> 3, mask |-> 2,   arg |-> FALSE, value |-> 0],
     set_drdy_mode_dout        |-> [reg |-> 3, mask |-> 2,   arg |-> FALSE, value |-> 2],
     set_internal_reference    |-> [reg |-> 2, mask |-> 192, arg |-> FALSE, value |-> 0],
     set_external_reference    |-> [reg |-> 2, mask |-> 192, arg |-> FALSE, value |-> 64]]

SetterNames == DOMAIN Layout

\* The field value (in place, i.e. already shifted) the call c asks for.
WantedField(c) ==
    IF Layout[c.name].arg THEN c.arg ELSE Layout[c.name].value

\* Shapes of the transactions on the bus.
IsSettle(o, ns) == o.op = "DelayNs" /\ o.ns >= ns

IsCommand(t, c) ==
    /\ Len(t.ops) = 2
    /\ IsSettle(t.ops[1], 50)
    /\ t.ops[2].op = "Write" /\ t.ops[2].tx = <<c>>

IsRegisterWrite(t, a) ==
    /\ Len(t.ops) = 3
    /\ IsSettle(t.ops[1], 50)
    /\ t.ops[2].op = "Write" /\ t.ops[2].tx = <<64 + 4 * a>>
    /\ t.ops[3].op = "TransferInPlace" /\ Len(t.ops[3].tx) = 1

IsRegisterRead(t, a) ==
    /\ Len(t.ops) = 3
    /\ IsSettle(t.ops[1], 50)
    /\ t.ops[2].op = "Write" /\ t.ops[2].tx = <<32 + 4 * a>>
    /\ t.ops[3].op = "Transfer" /\ t.ops[3].tx = <<255>> /\ Len(t.ops[3].rx) = 1

IsSampleRead(t) ==
    /\ Len(t.ops) = 2
    /\ IsSettle(t.ops[1], 50)
    /\ t.ops[2].op = "Read" /\ t.ops[2].tx = <<>> /\ Len(t.ops[2].rx) = 3

\* The value byte of a register-write transaction.
WrittenByte(t) == t.ops[3].tx[1]

\* The 24-bit two's-complement value of the big-endian word b.
TwosComplement24(b) ==
    IF b[1] < 128
    THEN b[1] * 65536 + b[2] * 256 + b[3]
    ELSE b[1] * 65536 + b[2] * 256 + b[3] - 16777216

ConversionNames == {"read_single_shot", "read_single_shot_single_ended"}

\* C1: the value a conversion returns is the 24-bit two's-complement value
\* of the three bytes read, sign-extended: b0*65536 + b1*256 + b2, minus
\* 16777216 when the top bit of b0 is set.
C1_DecoderTwosComplement ==
    (call.name \in ConversionNames /\ ret.ok) =>
        ret.val = <<TwosComplement24(bus[Len(bus)].ops[2].rx)>>

\* C2: the byte a setter writes differs from the register's previous
\* content only in the bits of the setter's own field.
C2_SetterFrame ==
    [][(call'.name \in SetterNames /\ ret'.ok) =>
          LET l == Layout[call'.name]
          IN  BitAnd(WrittenByte(bus'[1]), Not8(l.mask))
                = BitAnd(device[l.reg], Not8(l.mask))]_vars

\* C3: extracting the setter's field, by its mask, from the byte the setter
\* wrote yields the value the setter was called for.
C3_SetterFieldReadsBack ==
    (call.name \in SetterNames /\ ret.ok) =>
        BitAnd(WrittenByte(bus[1]), Layout[call.name].mask) = WantedField(call)

\* C4: a setter first reads its register on the bus, and the byte it then
\* writes is the byte read with only its field replaced.
C4_ReadModifyWrite ==
    call.name \in SetterNames =>
        LET l == Layout[call.name]
        IN  /\ Len(bus) >= 1
            /\ IsRegisterRead(bus[1], l.reg)
            /\ bus[1].ok =>
                 /\ Len(bus) = 2
                 /\ IsRegisterWrite(bus[2], l.reg)
                 /\ WrittenByte(bus[2])
                      = BitOr(BitAnd(bus[1].ops[3].rx[1], Not8(l.mask)),
                              WantedField(call))

\* C5: a successful begin() puts on the bus exactly: the reset command 0x06,
\* a wait of at least 50000 ns, then the writes of 0x00, 0x04, 0x10, 0x00 to
\* registers 0, 1, 2, 3, in this order.
C5_BeginSequence ==
    (call.name = "begin" /\ ret.ok) =>
        /\ Len(bus) = 6
        /\ IsCommand(bus[1], 6)
        /\ Len(bus[2].ops) = 1 /\ IsSettle(bus[2].ops[1], 50000)
        /\ \A a \in 0..3 :
              /\ IsRegisterWrite(bus[a + 3], a)
              /\ WrittenByte(bus[a + 3]) = <<0, 4, 16, 0>>[a + 1]

C5_Witness ==
    /\ call.name = "begin" /\ ret.ok
    /\ device[0] = 0 /\ device[1] = 4 /\ device[2] = 16 /\ device[3] = 0

\* The command byte of a register transaction.
CommandByte(t) == t.ops[2].tx

\* C6: write_register transmits the command byte 0x40 | (A << 2) and
\* read_register 0x20 | (A << 2), for the register A the caller addresses;
\* the eight command bytes are pairwise distinct and none is RESET or START.
C6_CommandBytes ==
    /\ call.name \in SetterNames =>
          CommandByte(bus[1]) = <<64 + 4 * Layout[call.name].reg>>
    /\ call.name = "read_single_shot_single_ended" =>
          CommandByte(bus[1]) = <<64>>
    /\ call.name = "begin" =>
          \A k \in 3..Len(bus) : CommandByte(bus[k]) = <<64 + 4 * (k - 3)>>
    /\ call.name = "get_config_reg" =>
          \A k \in 1..Len(bus) : CommandByte(bus[k]) = <<32 + 4 * (k - 1)>>
    /\ LET cmds == {write_register_command(a) : a \in 0..3}
                     \cup {read_register_command(a) : a \in 0..3}
       IN  Cardinality(cmds) = 8 /\ RESET \notin cmds /\ START \notin cmds

C6_Witness ==
    /\ call.name = "get_config_reg" /\ ret.ok
    /\ ret.val = <<0, 4, 16, 0>>

\* One register access, as one transaction: settle, one command byte, one
\* data byte (written, or exchanged against the dummy 0xFF).
IsWriteTransaction(t) ==
    /\ Len(t.ops) = 3
    /\ IsSettle(t.ops[1], 50)
    /\ t.ops[2].op = "Write" /\ Len(t.ops[2].tx) = 1
    /\ t.ops[3].op = "TransferInPlace" /\ Len(t.ops[3].tx) = 1

IsReadTransaction(t) ==
    /\ Len(t.ops) = 3
    /\ IsSettle(t.ops[1], 50)
    /\ t.ops[2].op = "Write" /\ Len(t.ops[2].tx) = 1
    /\ t.ops[3].op = "Transfer" /\ t.ops[3].tx = <<255>> /\ Len(t.ops[3].rx) = 1

\* C7: a register write is one transaction (settle >= 50 ns, command byte,
\* value byte) and a register read is one transaction (settle >= 50 ns,
\* command byte, one-byte exchange sending 0xFF) whose captured byte is what
\* the caller gets; neither is split in two.
C7_SingleTransaction ==
    /\ call.name \in SetterNames =>
          /\ Len(bus) = 1
          /\ IsWriteTransaction(bus[1])
          /\ WrittenByte(bus[1]) = cache[Layout[call.name].reg + 1]
    /\ call.name = "begin" =>
          /\ Len(bus) <= 6
          /\ \A k \in 3..Len(bus) :
                /\ IsWriteTransaction(bus[k])
                /\ WrittenByte(bus[k]) = cache[k - 2]
    /\ call.name = "get_config_reg" =>
          /\ Len(bus) <= 4
          /\ \A k \in 1..Len(bus) :
                /\ IsReadTransaction(bus[k])
                /\ bus[k].ok => bus[k].ops[3].rx = <<device[k - 1]>>
          /\ ret.ok =>
                /\ Len(bus) = 4
                /\ ret.val = [k \in 1..4 |-> bus[k].ops[3].rx[1]]

C7_Witness ==
    /\ call.name = "get_config_reg" /\ ret.ok
    /\ ret.val[1] = 176

\* C8: read_single_shot_single_ended completes the register-0 write that
\* carries the new mux field before the start command 0x08 goes out, and
\* issues neither the start command nor the sample read when that write
\* fails.
C8_MuxBeforeStart ==
    call.name = "read_single_shot_single_ended" =>
        /\ Len(bus) >= 1
        /\ IsRegisterWrite(bus[1], 0)
        /\ BitAnd(WrittenByte(bus[1]), 240) = call.arg
        /\ \A k \in 1..Len(bus) : IsCommand(bus[k], 8) => (k = 2 /\ bus[1].ok)
        /\ ~bus[1].ok => Len(bus) = 1
        /\ bus[1].ok => BitAnd(device[0], 240) = call.arg
        /\ ret.ok => Len(bus) = 3 /\ IsCommand(bus[2], 8) /\ IsSampleRead(bus[3])

C8_Witness ==
    /\ call.name = "read_single_shot_single_ended" /\ ret.ok
    /\ call.arg = 176 /\ device[0] = 176

\* C9: read_single_shot issues exactly two transactions, the start command
\* 0x08 and then a 3-byte read without a command byte, waits for nothing
\* but the 50 ns settle of each, and returns the decoder's value of exactly
\* the three bytes read.
C9_SingleShotTransactions ==
    call.name = "read_single_shot" =>
        /\ Len(bus) \in 1..2
        /\ IsCommand(bus[1], 8)
        /\ Len(bus) = 2 => IsSampleRead(bus[2])
        /\ \A k \in 1..Len(bus) : \A i \in 1..Len(bus[k].ops) :
              bus[k].ops[i].op = "DelayNs" => (i = 1 /\ bus[k].ops[i].ns = 50)
        /\ ret.ok =>
              /\ Len(bus) = 2
              /\ ret.val = <<data_to_int(bus[2].ops[2].rx)>>

C9_Witness ==
    /\ call.name = "read_single_shot" /\ ret.ok
    /\ bus[2].ops[2].rx = <<1, 2, 3>>

MultiStepLength ==
    [begin |-> 6, read_single_shot |-> 2,
     read_single_shot_single_ended |-> 3, get_config_reg |-> 4]

\* C10: in begin, read_single_shot, read_single_shot_single_ended and
\* get_config_reg, the first transaction that faults is the last one issued
\* (nothing after it, no retry) and the call returns the fault; when begin
\* faults at its k-th step, the device has seen exactly the steps before k:
\* the registers written before step k hold their defaults and the others
\* are as the reset left them (or, if the reset itself faulted, untouched).
C10_AbortOnFault ==
    [][call'.name \in DOMAIN MultiStepLength =>
          /\ Len(bus') \in 1..MultiStepLength[call'.name]
          /\ \A i \in 1..(Len(bus') - 1) : bus'[i].ok
          /\ ret'.ok = bus'[Len(bus')].ok
          /\ ret'.ok => Len(bus') = MultiStepLength[call'.name]
          /\ ~ret'.ok => ret'.val = <<>>
          /\ (call'.name = "begin" /\ ~ret'.ok) =>
                LET k == Len(bus')
                IN  \A a \in 0..3 :
                       device'[a] = IF k = 1 THEN device[a]
                                    ELSE IF a + 3 < k THEN <<0, 4, 16, 0>>[a + 1]
                                    ELSE 0]_vars

C10_Witness ==
    /\ call.name = "begin" /\ ~ret.ok
    /\ Len(bus) = 5
    /\ device[1] = 4 /\ device[2] = 0

\* C11: get_config_reg issues register reads only, for the addresses 0, 1,
\* 2, 3 in this order (exactly four when it succeeds), returns the four bytes
\* read in address order, and leaves the device's four registers unchanged.
C11_DumpReadsOnly ==
    [][call'.name = "get_config_reg" =>
          /\ Len(bus') \in 1..4
          /\ \A k \in 1..Len(bus') : IsRegisterRead(bus'[k], k - 1)
          /\ device' = device
          /\ ret'.ok =>
                /\ Len(bus') = 4
                /\ ret'.val = [k \in 1..4 |-> bus'[k].ops[3].rx[1]]
                /\ ret'.val = [k \in 1..4 |-> device[k - 1]]]_vars

C11_Witness ==
    /\ call.name = "get_config_reg" /\ ret.ok
    /\ device[0] = 128 /\ ret.val[1] = 128

\* C12: a begin() that succeeds, from whatever state, leaves the device's
\* registers at 0x00, 0x04, 0x10, 0x00, and the byte a setter writes right
\* after it differs from these defaults only in the setter's own field.
C12_RecoveryByBegin ==
    [][/\ (call'.name = "begin" /\ ret'.ok) =>
             \A a \in 0..3 : device'[a] = <<0, 4, 16, 0>>[a + 1]
       /\ (call.name = "begin" /\ ret.ok /\ call'.name \in SetterNames) =>
             LET l == Layout[call'.name]
             IN  BitAnd(WrittenByte(bus'[1]), Not8(l.mask))
                   = BitAnd(<<0, 4, 16, 0>>[l.reg + 1], Not8(l.mask))]_vars

\* C13: the seven named data rates, passed to set_data_rate, put the codes
\* 0..6 (in the order of the names, hence pairwise distinct) in bits 5-7 of
\* register 1 and have no bit outside bits 5-7; every named IDAC2 routing
\* value has no bit outside bits 2-4.
C13_NamedValuesInField ==
    /\ (call.name = "set_data_rate" /\ ret.ok) =>
          \E i \in 1..7 :
             /\ call.arg = DataRateSequence[i]
             /\ BitAnd(call.arg, Not8(224)) = 0
             /\ WrittenByte(bus[1]) \div 32 = i - 1
    /\ call.name = "set_idac2_route" => BitAnd(call.arg, Not8(28)) = 0

\* The cached bytes equal the device's registers.
Coherent == \A a \in 0..3 : cache[a + 1] = device[a]

\* C14: after any sequence of successfully completed operations, starting
\* from new() and a freshly powered device, each cached byte equals the
\* device's register.  (With nops <= 1 and ret.ok, every operation before
\* the step has succeeded.)
C14_CacheCoherence ==
    [][(nops <= 1 /\ ret.ok /\ ret'.ok) => Coherent']_vars

\* C15: when a setter, or a register write of begin, returns a transport
\* fault, the cached bytes are what they were before the call.
C15_CacheUnchangedOnError ==
    [][(/\ ~ret'.ok
        /\ \/ call'.name \in SetterNames
           \/ call'.name = "begin" /\ Len(bus') >= 3) =>
          cache' = cache]_vars

\* The byte the setter call c computes from the register byte reg.
SetterValue(c, reg) ==
    CASE c.name = "select_mux_channels" -> select_mux_channels_value(reg, c.arg)
      [] c.name = "set_pga_gain" -> set_pga_gain_value(reg, c.arg)
      [] c.name = "pga_on" -> pga_on_value(reg)
      [] c.name = "pga_off" -> pga_off_value(reg)
      [] c.name = "set_data_rate" -> set_data_rate_value(reg, c.arg)
      [] c.name = "set_operation_mode" -> set_operation_mode_value(reg, c.arg)
      [] c.name = "set_conv_mode_single_shot" -> set_conv_mode_single_shot_value(reg)
      [] c.name = "set_conv_mode_continuous" -> set_conv_mode_continuous_value(reg)
      [] c.name = "temp_sensor_mode_disable" -> temp_sensor_mode_disable_value(reg)
      [] c.name = "temp_sensor_mode_enable" -> temp_sensor_mode_enable_value(reg)
      [] c.name = "current_sources_off" -> current_sources_off_value(reg)
      [] c.name = "current_sources_on" -> current_sources_on_value(reg)
      [] c.name = "set_vref" -> set_vref_value(reg, c.arg)
      [] c.name = "set_fir_filter" -> set_fir_filter_value(reg, c.arg)
      [] c.name = "low_side_switch_open" -> low_side_switch_open_value(reg)
      [] c.name = "low_side_switch_closed" -> low_side_switch_closed_value(reg)
      [] c.name = "set_idac_current" -> set_idac_current_value(reg, c.arg)
      [] c.name = "set_idac1_route" -> set_idac1_route_value(reg, c.arg)
      [] c.name = "set_idac2_route" -> set_idac2_route_value(reg, c.arg)
      [] c.name = "set_drdy_mode_default" -> set_drdy_mode_default_value(reg)
      [] c.name = "set_drdy_mode_dout" -> set_drdy_mode_dout_value(reg)
      [] c.name = "set_internal_reference" -> set_internal_reference_value(reg)
      [] c.name = "set_external_reference" -> set_external_reference_value(reg)

\* C16: two setters of different fields of one register commute, and a
\* setter repeated with the same value changes nothing: after new(), A then
\* B (both successful) leaves in the device register the byte that B then A
\* gives from the same start (every register 0x00), and A then A the byte
\* of A alone.
C16_SettersCommute ==
    [][(/\ nops = 1
        /\ call.name \in SetterNames /\ ret.ok
        /\ call'.name \in SetterNames /\ ret'.ok
        /\ Layout[call.name].reg = Layout[call'.name].reg) =>
          LET r == Layout[call.name].reg
          IN  /\ Layout[call.name].mask # Layout[call'.name].mask =>
                    device'[r] = SetterValue(call, SetterValue(call', 0))
              /\ call' = call => device'[r] = device[r]]_vars

=============================================================================
